---- MODULE Spec2Model ----
(***************************************************************************)
(* Model of the research page of the deep-research frontend                *)
(* (src/frontend/app/page.tsx) and of the SSE helpers it duplicates        *)
(* (SSEParser in src/unnamed/part_002).                                    *)
(*                                                                         *)
(* A text is a sequence of lexemes.  The lexeme "\n" is the line break,    *)
(* " " is a blank; "event:" and "data:" are the two field prefixes; the    *)
(* remaining lexemes are event names and pieces of JSON text.  Chunk       *)
(* boundaries fall between lexemes.                                        *)
(***************************************************************************)
EXTENDS Integers, Sequences, FiniteSets, TLC

VARIABLES
    messages,        \* useState<Message[]>            page.tsx:19
    phase,           \* useState<Phase>                page.tsx:20
    busy,            \* useState(false)                page.tsx:21
    logs,            \* useState<string[]>             page.tsx:22
    progress,        \* useState<number>               page.tsx:23
    pc,              \* where sendResearchMessage is suspended
    buf,             \* let buf                        page.tsx:121
    currentReport,   \* let currentReport              page.tsx:97
    currentPlan,     \* let currentPlan                page.tsx:98
    currentSources,  \* let currentSources             page.tsx:99
    timers,          \* pending setTimeout callbacks   page.tsx:198
    consumed,        \* all text the reader has delivered to this operation
    emitted,         \* all blocks the splitter has handed on in this operation
    superseded,      \* a send was attempted while this operation was in flight
    opCount,         \* operations started so far
    chunkCount,      \* chunks delivered so far
    budget,          \* useState(4)                   page.tsx:32
    request,         \* the config of the last request handed to fetch
    frame,           \* the block handed to the frame decoder
    decoded,         \* what the frame decoder made of it
    markdown,        \* the markdown text handed to the renderers
    rendered         \* what the renderers made of it

vars == <<messages, phase, busy, logs, progress, pc, buf, currentReport,
          currentPlan, currentSources, timers, consumed, emitted, superseded,
          opCount, chunkCount, budget, request, frame, decoded, markdown, rendered>>

\* the variables of the pure helpers, which the page's handlers do not touch
helperVars == <<frame, decoded, markdown, rendered>>

(***************************************************************************)
(* Bounds of the model.                                                    *)
(***************************************************************************)
MaxOps == 1
MaxChunks == 2
MaxText == 5
MaxPush == 3

(***************************************************************************)
(* Text primitives.                                                        *)
(***************************************************************************)
NL == "\n"
SP == " "
WhiteSpace == {NL, SP}

\* String.prototype.trim
RECURSIVE TrimLeft(_)
TrimLeft(s) ==
    IF s # <<>> /\ Head(s) \in WhiteSpace THEN TrimLeft(Tail(s)) ELSE s

RECURSIVE TrimRight(_)
TrimRight(s) ==
    IF s # <<>> /\ s[Len(s)] \in WhiteSpace
    THEN TrimRight(SubSeq(s, 1, Len(s) - 1))
    ELSE s

Trim(s) == TrimRight(TrimLeft(s))

\* String.prototype.startsWith for a one-lexeme prefix
StartsWith(s, p) == s # <<>> /\ Head(s) = p

\* String.prototype.slice(k) where k is the length of the one-lexeme prefix
SlicePrefix(s) == Tail(s)

\* String.prototype.split(/\n/): leftmost matches, the pieces between them
RECURSIVE SplitLinesFrom(_, _, _, _)
SplitLinesFrom(s, i, cur, acc) ==
    IF i > Len(s) THEN Append(acc, cur)
    ELSE IF s[i] = NL THEN SplitLinesFrom(s, i + 1, <<>>, Append(acc, cur))
    ELSE SplitLinesFrom(s, i + 1, Append(cur, s[i]), acc)

SplitLines(s) == SplitLinesFrom(s, 1, <<>>, <<>>)

\* String.prototype.split(/\n\n/): leftmost non-overlapping matches
RECURSIVE SplitBlocksFrom(_, _, _, _)
SplitBlocksFrom(s, i, cur, acc) ==
    IF i > Len(s) THEN Append(acc, cur)
    ELSE IF s[i] = NL /\ i + 1 <= Len(s) /\ s[i + 1] = NL
         THEN SplitBlocksFrom(s, i + 2, <<>>, Append(acc, cur))
    ELSE SplitBlocksFrom(s, i + 1, Append(cur, s[i]), acc)

SplitBlocks(s) == SplitBlocksFrom(s, 1, <<>>, <<>>)

\* Array.prototype.join("\n")
RECURSIVE JoinLines(_)
JoinLines(ls) ==
    IF ls = <<>> THEN <<>>
    ELSE IF Len(ls) = 1 THEN ls[1]
    ELSE ls[1] \o <<NL>> \o JoinLines(Tail(ls))

(***************************************************************************)
(* The splitter: buf += chunk; blocks = buf.split(/\n\n/);                 *)
(* buf = blocks.pop() || "".                                               *)
(***************************************************************************)
\* a splitter that forgets the retained tail (buf = chunk instead of buf += chunk)
SplitStepDropsBuffer(b, chunk) ==
    LET parts == SplitBlocks(chunk)
    IN  [blocks |-> SubSeq(parts, 1, Len(parts) - 1), buf |-> parts[Len(parts)]]

\* a splitter that hands on the last piece too instead of retaining it
SplitStepEmitsTail(b, chunk) ==
    [blocks |-> SplitBlocks(b \o chunk), buf |-> <<>>]

\* a splitter that hands the blocks on and retains them too
SplitStepKeepsBlocks(b, chunk) ==
    LET parts == SplitBlocks(b \o chunk)
    IN  [blocks |-> SubSeq(parts, 1, Len(parts) - 1), buf |-> b \o chunk]

SplitStep(b, chunk) ==
    LET parts == SplitBlocks(b \o chunk)
    IN  [blocks |-> SubSeq(parts, 1, Len(parts) - 1), buf |-> parts[Len(parts)]]

(***************************************************************************)
(* JavaScript values.  A value carries its type tag t, its number n, its   *)
(* string s (for an object inside a payload: the name of the object) and,  *)
(* for an object parsed from JSON text, its fields f.                      *)
(***************************************************************************)
Leaf(t, n, s) == [t |-> t, n |-> n, s |-> s]
NoFields == [k \in {} |-> Leaf("undefined", 0, "")]

Undefined == Leaf("undefined", 0, "")
Null == Leaf("null", 0, "")
Num(k) == Leaf("number", k, "")
Str(x) == Leaf("string", 0, x)
Obj(fields) == [t |-> "object", n |-> 0, s |-> "", f |-> fields]

\* ToBoolean
Truthy(v) ==
    \/ v.t = "object"
    \/ v.t = "number" /\ v.n # 0
    \/ v.t = "string" /\ v.s # ""

\* a property read throws a TypeError on null and undefined
Throws(v) == v.t \in {"null", "undefined"}

\* v.k for a value on which the read does not throw
Get(v, k) ==
    IF v.t = "object" /\ "f" \in DOMAIN v /\ k \in DOMAIN v.f THEN v.f[k] ELSE Undefined

\* string conversion in a template literal or a + concatenation
Show(v) ==
    CASE v.t = "string" -> v.s
      [] v.t = "number" -> ToString(v.n)
      [] v.t = "null" -> "null"
      [] v.t = "undefined" -> "undefined"
      [] OTHER -> "[object Object]"

(***************************************************************************)
(* JSON text.  The lexemes of JSON text are the braces, the comma, whole   *)
(* members ("key":value) and whole scalars.                                *)
(***************************************************************************)
MemberTable ==
    ("\"phase\":\"planning\"" :> [k |-> "phase", v |-> Leaf("string", 0, "planning")]) @@
    ("\"phase\":\"searching\"" :> [k |-> "phase", v |-> Leaf("string", 0, "searching")]) @@
    ("\"phase\":\"\"" :> [k |-> "phase", v |-> Leaf("string", 0, "")]) @@
    ("\"text\":\"P1\"" :> [k |-> "text", v |-> Leaf("string", 0, "P1")]) @@
    ("\"top\":[S1]" :> [k |-> "top", v |-> Leaf("object", 0, "[S1]")]) @@
    ("\"count\":1" :> [k |-> "count", v |-> Leaf("number", 1, "")]) @@
    ("\"msg\":\"hi\"" :> [k |-> "msg", v |-> Leaf("string", 0, "hi")]) @@
    ("\"percent\":50" :> [k |-> "percent", v |-> Leaf("number", 50, "")]) @@
    ("\"percent\":20" :> [k |-> "percent", v |-> Leaf("number", 20, "")]) @@
    ("\"percent\":\"50\"" :> [k |-> "percent", v |-> Leaf("string", 0, "50")]) @@
    ("\"report\":{R1}" :> [k |-> "report", v |-> Leaf("object", 0, "{R1}")]) @@
    ("\"report\":null" :> [k |-> "report", v |-> Leaf("null", 0, "")]) @@
    ("\"report\":{\"content\":\"# Hi\",\"citations\":[]}" :>
        [k |-> "report",
         v |-> Obj(("content" :> Leaf("string", 0, "# Hi")) @@
                   ("citations" :> Leaf("object", 0, "[]")))]) @@
    ("\"percent\":150" :> [k |-> "percent", v |-> Leaf("number", 150, "")]) @@
    ("\"percent\":-5" :> [k |-> "percent", v |-> Leaf("number", -5, "")]) @@
    ("\"percent\":null" :> [k |-> "percent", v |-> Leaf("null", 0, "")]) @@
    ("\"message\":\"\"" :> [k |-> "message", v |-> Leaf("string", 0, "")]) @@
    ("\"message\":\"boom\"" :> [k |-> "message", v |-> Leaf("string", 0, "boom")])

MemberLexemes == DOMAIN MemberTable

\* the members of an object body: member (, member)*
MembersOK(body) ==
    /\ Len(body) % 2 = 1
    /\ \A i \in 1..Len(body) :
          IF i % 2 = 1 THEN body[i] \in MemberLexemes ELSE body[i] = ","

\* a later member of the same key replaces an earlier one
RECURSIVE FieldsOf(_, _)
FieldsOf(body, acc) ==
    IF body = <<>> THEN acc
    ELSE IF Head(body) \in MemberLexemes
         THEN FieldsOf(Tail(body),
                       (MemberTable[Head(body)].k :> MemberTable[Head(body)].v) @@ acc)
    ELSE FieldsOf(Tail(body), acc)

\* JSON.parse: [ok |-> FALSE] stands for the SyntaxError it throws
JSONParse(text) ==
    LET t == SelectSeq(text, LAMBDA c : c \notin WhiteSpace)
        body == SubSeq(t, 2, Len(t) - 1)
    IN  IF t = <<"null">> THEN [ok |-> TRUE, v |-> Null]
        ELSE IF t = <<"7">> THEN [ok |-> TRUE, v |-> Num(7)]
        ELSE IF Len(t) >= 2 /\ t[1] = "{" /\ t[Len(t)] = "}"
                /\ (body = <<>> \/ MembersOK(body))
             THEN [ok |-> TRUE, v |-> Obj(FieldsOf(body, NoFields))]
        ELSE [ok |-> FALSE, v |-> Undefined]

(***************************************************************************)
(* The frame decoder written inline in the read loop (page.tsx:132-147).   *)
(***************************************************************************)
\* the for loop over block.split(/\n/): eventName and dataLines after it
RECURSIVE ScanLines(_, _, _)
ScanLines(lines, eventName, dataLines) ==
    IF lines = <<>> THEN [eventName |-> eventName, dataLines |-> dataLines]
    ELSE LET trimmed == Trim(Head(lines))
             name == IF StartsWith(trimmed, "event:")
                     THEN Trim(SlicePrefix(trimmed)) ELSE eventName
             data == IF StartsWith(trimmed, "data:")
                     THEN Append(dataLines, Trim(SlicePrefix(trimmed))) ELSE dataLines
         IN  ScanLines(Tail(lines), name, data)

\* a decoder that keeps the event name of the first event line
DecodeBlockFirstEvent(block) ==
    LET lines == SplitLines(block)
        first == CHOOSE i \in 1..Len(lines) :
                     /\ StartsWith(Trim(lines[i]), "event:")
                     /\ \A j \in 1..(i - 1) : ~StartsWith(Trim(lines[j]), "event:")
        scan == ScanLines(lines, <<"message">>, <<>>)
        parsed == JSONParse(JoinLines(scan.dataLines))
    IN  IF Trim(block) = <<>> \/ scan.dataLines = <<>> \/ ~parsed.ok
        THEN [skip |-> TRUE, eventName |-> <<>>, payload |-> Undefined]
        ELSE [skip |-> FALSE,
              eventName |-> IF scan.eventName = <<"message">> THEN scan.eventName
                            ELSE Trim(SlicePrefix(Trim(lines[first]))),
              payload |-> parsed.v]

\* [skip |-> TRUE] stands for the three `continue` statements
DecodeBlock(block) ==
    IF Trim(block) = <<>> THEN [skip |-> TRUE, eventName |-> <<>>, payload |-> Undefined]
    ELSE LET scan == ScanLines(SplitLines(block), <<"message">>, <<>>)
             parsed == JSONParse(JoinLines(scan.dataLines))
         IN  IF scan.dataLines = <<>> \/ ~parsed.ok
             THEN [skip |-> TRUE, eventName |-> <<>>, payload |-> Undefined]
             ELSE [skip |-> FALSE, eventName |-> scan.eventName, payload |-> parsed.v]

(***************************************************************************)
(* The event handlers of the read loop (page.tsx:149-170).  st holds what  *)
(* the loop writes: the React state phase, progress and logs, the locals   *)
(* currentReport, currentPlan and currentSources, and thrown: the message  *)
(* of the exception that left the loop, "" while there is none.            *)
(***************************************************************************)
EmptyArray == Leaf("object", 0, "[]")
TypeErrorMessage == "Cannot read properties of null"

\* pushLog with the new line put in front of the others
pushLogPrepends(st, line) == [st EXCEPT !.logs = <<line>> \o st.logs]

pushLog(st, line) == [st EXCEPT !.logs = Append(st.logs, line)]

Throw(st, message) == [st EXCEPT !.thrown = message]

\* x || y
OrElse(x, y) == IF Truthy(x) THEN x ELSE y

\* x ?? y
Coalesce(x, y) == IF x.t \in {"null", "undefined"} THEN y ELSE x

\* a done handler that leaves the progress bar where it was
OnDoneKeepsProgress(st, payload) ==
    IF Throws(payload) THEN Throw(st, TypeErrorMessage)
    ELSE pushLog([st EXCEPT !.currentReport = Coalesce(Get(payload, "report"), payload),
                            !.phase = "done"],
                 "DONE.")

\* setPhase(payload.phase || ""): the phase is recorded by its string form
OnStatus(st, payload) ==
    IF Throws(payload) THEN Throw(st, TypeErrorMessage)
    ELSE pushLog([st EXCEPT !.phase = Show(OrElse(Get(payload, "phase"), Str("")))],
                 "STATUS: " \o Show(Get(payload, "phase")))

OnPlan(st, payload) ==
    IF Throws(payload) THEN Throw(st, TypeErrorMessage)
    ELSE pushLog([st EXCEPT !.currentPlan = OrElse(Get(payload, "text"), Str(""))],
                 "PLAN received")

OnSources(st, payload) ==
    IF Throws(payload) THEN Throw(st, TypeErrorMessage)
    ELSE pushLog([st EXCEPT !.currentSources = OrElse(Get(payload, "top"), EmptyArray)],
                 "SOURCES: " \o Show(Get(payload, "count")) \o " unique")

OnLog(st, payload) ==
    IF Throws(payload) THEN Throw(st, TypeErrorMessage)
    ELSE IF Truthy(Get(payload, "msg")) THEN pushLog(st, Show(Get(payload, "msg")))
    ELSE st

OnProgress(st, payload) ==
    IF Throws(payload) THEN Throw(st, TypeErrorMessage)
    ELSE IF Get(payload, "percent").t = "number"
         THEN [st EXCEPT !.progress = Get(payload, "percent").n]
    ELSE st

OnDone(st, payload) ==
    IF Throws(payload) THEN Throw(st, TypeErrorMessage)
    ELSE pushLog([st EXCEPT !.currentReport = Coalesce(Get(payload, "report"), payload),
                            !.phase = "done",
                            !.progress = 100],
                 "DONE.")

\* setPhase("error") runs before payload.message is read
OnError(st, payload) ==
    IF Throws(payload) THEN Throw([st EXCEPT !.phase = "error"], TypeErrorMessage)
    ELSE pushLog([st EXCEPT !.phase = "error"],
                 "ERROR: " \o Show(OrElse(Get(payload, "message"), Str("unknown"))))

\* handlers that take an event of any other name for a log event
ApplyEventLogsUnknown(st, eventName, payload) ==
    CASE eventName = <<"status">> -> OnStatus(st, payload)
      [] eventName = <<"plan">> -> OnPlan(st, payload)
      [] eventName = <<"sources">> -> OnSources(st, payload)
      [] eventName = <<"progress">> -> OnProgress(st, payload)
      [] eventName = <<"done">> -> OnDone(st, payload)
      [] eventName = <<"error">> -> OnError(st, payload)
      [] OTHER -> OnLog(st, payload)

ApplyEvent(st, eventName, payload) ==
    CASE eventName = <<"status">> -> OnStatus(st, payload)
      [] eventName = <<"plan">> -> OnPlan(st, payload)
      [] eventName = <<"sources">> -> OnSources(st, payload)
      [] eventName = <<"log">> -> OnLog(st, payload)
      [] eventName = <<"progress">> -> OnProgress(st, payload)
      [] eventName = <<"done">> -> OnDone(st, payload)
      [] eventName = <<"error">> -> OnError(st, payload)
      [] OTHER -> st

\* a loop body that gives up on the stream at a block it cannot decode
ProcessBlockAbortsOnMalformed(st, block) ==
    LET d == DecodeBlock(block)
    IN  IF Trim(block) = <<>> THEN st
        ELSE IF d.skip THEN Throw(st, "Unexpected token")
        ELSE ApplyEvent(st, d.eventName, d.payload)

\* one pass of the body of `for (const block of blocks)`
ProcessBlock(st, block) ==
    LET d == DecodeBlock(block)
    IN  IF d.skip THEN st ELSE ApplyEvent(st, d.eventName, d.payload)

\* the for loop run back to front
RECURSIVE ProcessBlocksBackwards(_, _)
ProcessBlocksBackwards(st, blocks) ==
    IF blocks = <<>> \/ st.thrown # "" THEN st
    ELSE ProcessBlocksBackwards(ProcessBlock(st, blocks[Len(blocks)]),
                                SubSeq(blocks, 1, Len(blocks) - 1))

\* `for (const block of blocks)`: in order, until an exception leaves the loop
RECURSIVE ProcessBlocks(_, _)
ProcessBlocks(st, blocks) ==
    IF blocks = <<>> \/ st.thrown # "" THEN st
    ELSE ProcessBlocks(ProcessBlock(st, Head(blocks)), Tail(blocks))

(***************************************************************************)
(* The stream the backend may send, chunk by chunk.                        *)
(***************************************************************************)
EventLine(name) == <<"event:", SP, name, NL>>
DataLine(json) == <<"data:", SP>> \o json
Frame(name, json) == EventLine(name) \o DataLine(json)
BlankLine == <<NL, NL>>

PlanningJSON == <<"{", "\"phase\":\"planning\"", "}">>
EmptyJSON == <<"{", "}">>
PlanJSON == <<"{", "\"text\":\"P1\"", "}">>
SourcesJSON == <<"{", "\"count\":1", ",", "\"top\":[S1]", "}">>
LogJSON == <<"{", "\"msg\":\"hi\"", "}">>
Percent50JSON == <<"{", "\"percent\":50", "}">>
Percent20JSON == <<"{", "\"percent\":20", "}">>
ReportJSON == <<"{", "\"report\":{R1}", "}">>
MessageJSON == <<"{", "\"message\":\"boom\"", "}">>
BrokenJSON == <<"{", "\"msg\":\"hi\"">>

\* one chunk, one frame
SingleFrames ==
    { Frame("status", PlanningJSON),
      Frame("plan", PlanJSON),
      Frame("sources", SourcesJSON),
      Frame("log", LogJSON),
      Frame("progress", Percent50JSON),
      Frame("progress", Percent20JSON),
      Frame("done", ReportJSON),
      Frame("done", EmptyJSON),
      Frame("done", <<"null">>),
      Frame("error", MessageJSON),
      <<"event:", SP, "log">> }

\* chunks that hold two frames, and chunks that end inside a frame or a delimiter
Chunks ==
    { f \o BlankLine : f \in SingleFrames }
    \cup { Frame("done", ReportJSON) \o BlankLine \o Frame("log", LogJSON) \o BlankLine,
           Frame("log", BrokenJSON) \o BlankLine \o Frame("progress", Percent50JSON) \o BlankLine,
           Frame("done", ReportJSON) \o <<NL>>,
           <<NL>> }

Queries == { <<"q">> }

FetchFailures == { "Failed to fetch", "HTTP 500: Internal Server Error", "No response body" }
ReadFailures == { "network error" }

(***************************************************************************)
(* The page.                                                               *)
(***************************************************************************)
Message(role, content, report, plan, sources) ==
    [role |-> role, content |-> content, report |-> report, plan |-> plan,
     sources |-> sources, isResearch |-> TRUE]

\* useState(4): page.tsx:32
DefaultBudget == 4

\* the body handed to fetch, as far as the model follows it: page.tsx:107-111
Request(url, search_budget) == [url |-> url, search_budget |-> search_budget]
NoRequest == Request("", 0)

\* what the read loop reads and writes, as one record
LoopState ==
    [phase |-> phase, progress |-> progress, logs |-> logs,
     currentReport |-> currentReport, currentPlan |-> currentPlan,
     currentSources |-> currentSources, thrown |-> ""]

\* the page after its first render: page.tsx:19-32
PageInit ==
    /\ messages = <<>>
    /\ phase = ""
    /\ busy = FALSE
    /\ logs = <<>>
    /\ progress = 0
    /\ pc = "idle"
    /\ buf = <<>>
    /\ currentReport = Null
    /\ currentPlan = Str("")
    /\ currentSources = EmptyArray
    /\ timers = 0
    /\ consumed = <<>>
    /\ emitted = <<>>
    /\ superseded = FALSE
    /\ opCount = 0
    /\ chunkCount = 0
    /\ budget = DefaultBudget
    /\ request = NoRequest

\* no block has been handed to the decoder, no text to the renderers
NotDecoded == [pending |-> TRUE]
NotRendered == [pending |-> TRUE]

Init ==
    /\ PageInit
    /\ frame = <<>>
    /\ decoded = NotDecoded
    /\ markdown = <<>>
    /\ rendered = NotRendered

\* a catch block that records the failure in the log only
CatchKeepsPhase(st, message) ==
    /\ phase' = st.phase
    /\ logs' = Append(st.logs, "CLIENT ERROR: " \o message)
    /\ messages' = Append(messages,
                          Message("assistant", "Error: " \o message,
                                  Undefined, Undefined, Undefined))

\* catch (err): page.tsx:184-194
Catch(st, message) ==
    /\ phase' = "error"
    /\ logs' = Append(st.logs, "CLIENT ERROR: " \o message)
    /\ messages' = Append(messages,
                          Message("assistant", "Error: " \o message,
                                  Undefined, Undefined, Undefined))

\* a finally block that leaves the page busy
FinallyStaysBusy ==
    /\ busy' = TRUE
    /\ timers' = timers + 1
    /\ pc' = "idle"
    /\ buf' = <<>>
    /\ currentReport' = Null
    /\ currentPlan' = Str("")
    /\ currentSources' = EmptyArray
    /\ consumed' = <<>>
    /\ emitted' = <<>>
    /\ superseded' = FALSE

\* finally: page.tsx:195-204; the function returns and its locals are gone
Finally ==
    /\ busy' = FALSE
    /\ timers' = timers + 1
    /\ pc' = "idle"
    /\ buf' = <<>>
    /\ currentReport' = Null
    /\ currentPlan' = Str("")
    /\ currentSources' = EmptyArray
    /\ consumed' = <<>>
    /\ emitted' = <<>>
    /\ superseded' = FALSE

\* sendResearchMessage up to the await of fetch: page.tsx:85-104
StartResearch(query) ==
    /\ Trim(query) # <<>>
    /\ ~busy
    /\ messages' = Append(messages,
                          Message("user", query, Undefined, Undefined, Undefined))
    /\ busy' = TRUE
    /\ phase' = ""
    /\ logs' = <<>>
    /\ progress' = 0
    /\ currentReport' = Null
    /\ currentPlan' = Str("")
    /\ currentSources' = EmptyArray
    /\ pc' = "fetch"
    /\ consumed' = <<>>
    /\ emitted' = <<>>
    /\ superseded' = FALSE
    /\ opCount' = opCount + 1
    /\ request' = Request("/run", budget)
    /\ UNCHANGED <<buf, timers, chunkCount>>
    /\ UNCHANGED <<budget, helperVars>>

\* the operations of a behaviour, of which there are at most MaxOps
SendResearchMessage(query) ==
    /\ opCount < MaxOps
    /\ StartResearch(query)

\* a send while an operation is in flight that takes the query all the same
SendWhileBusyQueues(query) ==
    /\ Trim(query) # <<>>
    /\ busy
    /\ messages' = Append(messages,
                          Message("user", query, Undefined, Undefined, Undefined))
    /\ superseded' = TRUE
    /\ UNCHANGED <<phase, busy, logs, progress, pc, buf, currentReport,
                   currentPlan, currentSources, timers, consumed, emitted,
                   opCount, chunkCount>>
    /\ UNCHANGED <<budget, request, helperVars>>

\* a send while an operation is in flight returns at once: page.tsx:86
SendWhileBusy(query) ==
    /\ Trim(query) # <<>>
    /\ busy
    /\ superseded' = TRUE
    /\ UNCHANGED <<messages, phase, busy, logs, progress, pc, buf, currentReport,
                   currentPlan, currentSources, timers, consumed, emitted,
                   opCount, chunkCount>>
    /\ UNCHANGED <<budget, request, helperVars>>

\* fetch rejects, or the response is not OK or has no body: page.tsx:104-117
FetchFails(message) ==
    /\ pc = "fetch"
    /\ Catch(LoopState, message)
    /\ Finally
    /\ UNCHANGED <<progress, opCount, chunkCount>>
    /\ UNCHANGED <<budget, request, helperVars>>

\* the response is OK and has a body: page.tsx:119-121
FetchResolves ==
    /\ pc = "fetch"
    /\ pc' = "read"
    /\ buf' = <<>>
    /\ UNCHANGED <<messages, phase, busy, logs, progress, currentReport, currentPlan,
                   currentSources, timers, consumed, emitted, superseded, opCount,
                   chunkCount>>
    /\ UNCHANGED <<budget, request, helperVars>>

\* reader.read() resolves with a chunk: page.tsx:124-172
Deliver(chunk) ==
    /\ pc = "read"
    /\ LET split == SplitStep(buf, chunk)
           st == ProcessBlocks(LoopState, split.blocks)
       IN  /\ chunkCount' = chunkCount + 1
           /\ progress' = st.progress
           /\ IF st.thrown # ""
              THEN Catch(st, st.thrown) /\ Finally
              ELSE /\ buf' = split.buf
                   /\ consumed' = consumed \o chunk
                   /\ emitted' = emitted \o split.blocks
                   /\ phase' = st.phase
                   /\ logs' = st.logs
                   /\ currentReport' = st.currentReport
                   /\ currentPlan' = st.currentPlan
                   /\ currentSources' = st.currentSources
                   /\ UNCHANGED <<messages, busy, timers, pc, superseded>>
    /\ UNCHANGED opCount
    /\ UNCHANGED <<budget, request, helperVars>>

\* the chunks of Chunks, of which a stream holds at most MaxChunks
ReadChunk(chunk) ==
    /\ chunkCount < MaxChunks
    /\ Deliver(chunk)

\* reader.read() resolves with done: page.tsx:125, 174-182
ReadDone ==
    /\ pc = "read"
    /\ messages' = Append(messages,
                          Message("assistant", "Research complete!",
                                  currentReport, currentPlan, currentSources))
    /\ Finally
    /\ UNCHANGED <<phase, logs, progress, opCount, chunkCount>>
    /\ UNCHANGED <<budget, request, helperVars>>

\* reader.read() rejects: page.tsx:124, 184-204
ReadRejects(message) ==
    /\ pc = "read"
    /\ Catch(LoopState, message)
    /\ Finally
    /\ UNCHANGED <<progress, opCount, chunkCount>>
    /\ UNCHANGED <<budget, request, helperVars>>

\* the setTimeout callback: page.tsx:198-203.  Its `busy` is the constant of the
\* render in which sendResearchMessage was called, which the guard of line 86
\* found false.
TimerFires ==
    /\ timers > 0
    /\ timers' = timers - 1
    /\ LET closureBusy == FALSE
       IN  IF ~closureBusy
           THEN progress' = 0 /\ phase' = ""
           ELSE UNCHANGED <<progress, phase>>
    /\ UNCHANGED <<messages, busy, logs, pc, buf, currentReport, currentPlan,
                   currentSources, consumed, emitted, superseded, opCount, chunkCount>>
    /\ UNCHANGED <<budget, request, helperVars>>

Next ==
    \/ \E query \in Queries : SendResearchMessage(query)
    \/ \E query \in Queries : SendWhileBusy(query)
    \/ \E message \in FetchFailures : FetchFails(message)
    \/ FetchResolves
    \/ \E chunk \in Chunks : ReadChunk(chunk)
    \/ ReadDone
    \/ \E message \in ReadFailures : ReadRejects(message)
    \/ TimerFires

Spec == Init /\ [][Next]_vars

(***************************************************************************)
(* The splitter alone: every text over a three-letter alphabet, cut into   *)
(* chunks at every place.                                                  *)
(***************************************************************************)
SplitAlphabet == {NL, SP, "a"}
PushTexts == UNION { [1..n -> SplitAlphabet] : n \in 1..MaxPush }

\* buf += chunk; blocks = buf.split(/\n\n/); buf = blocks.pop(): page.tsx:127-129
Push(chunk) ==
    /\ Len(consumed) + Len(chunk) <= MaxText
    /\ LET split == SplitStep(buf, chunk)
       IN  /\ buf' = split.buf
           /\ emitted' = emitted \o split.blocks
    /\ consumed' = consumed \o chunk
    /\ chunkCount' = chunkCount + 1
    /\ UNCHANGED <<messages, phase, busy, logs, progress, pc, currentReport,
                   currentPlan, currentSources, timers, superseded, opCount>>
    /\ UNCHANGED <<budget, request, helperVars>>

SplitNext == \E chunk \in PushTexts : Push(chunk)

SplitSpec == Init /\ [][SplitNext]_vars

(***************************************************************************)
(* C1.  Frame splitting is chunk-boundary-invariant: however the text      *)
(* received so far was cut into chunks, the blocks handed on and the       *)
(* retained buffer are those of feeding the whole text as one chunk to an  *)
(* empty splitter.                                                         *)
(***************************************************************************)
ChunkBoundaryInvariant ==
    LET whole == SplitStep(<<>>, consumed)
    IN  emitted = whole.blocks /\ buf = whole.buf

\* a delimiter was received one line break per chunk, with text on both sides
ChunkBoundaryWitness ==
    /\ chunkCount = Len(consumed)
    /\ consumed = <<"a", NL, NL, NL, "a">>
    /\ emitted = << <<"a">> >>
    /\ buf = <<NL, "a">>

(***************************************************************************)
(* Reference notions used by the properties of the read loop.              *)
(***************************************************************************)
Terminal == {"done", "error"}

\* the fields of a record of the loop that the claims speak of
Observed(st) ==
    [phase |-> st.phase, progress |-> st.progress, logs |-> st.logs,
     currentReport |-> st.currentReport, currentPlan |-> st.currentPlan,
     currentSources |-> st.currentSources]

\* the same fields of the page after a step
ObservedNext ==
    [phase |-> phase', progress |-> progress', logs |-> logs',
     currentReport |-> currentReport', currentPlan |-> currentPlan',
     currentSources |-> currentSources']

\* a step of the read loop that takes in a chunk and stays in the loop
StaysInLoop == pc = "read" /\ pc' = "read" /\ chunkCount' = chunkCount + 1

\* the lines of a block that carry data, and the JSON text they hold
DataTexts(block) ==
    LET lines == SplitLines(block)
        isData(i) == StartsWith(Trim(lines[i]), "data:")
        idx == { i \in 1..Len(lines) : isData(i) }
        RECURSIVE Collect(_)
        Collect(i) ==
            IF i > Len(lines) THEN <<>>
            ELSE IF i \in idx
                 THEN <<Trim(SlicePrefix(Trim(lines[i])))>> \o Collect(i + 1)
            ELSE Collect(i + 1)
    IN  Collect(1)

\* a malformed frame: no data line, or data that is not JSON text
IsMalformed(block) ==
    \/ DataTexts(block) = <<>>
    \/ ~JSONParse(JoinLines(DataTexts(block))).ok

(***************************************************************************)
(* C2.  Terminal idempotence: once the phase is done or error within one   *)
(* operation, a further chunk of events leaves phase, percent, log lines,  *)
(* plan, sources and report unchanged.                                     *)
(***************************************************************************)
TerminalIdempotence ==
    [][(StaysInLoop /\ phase \in Terminal) => ObservedNext = Observed(LoopState)]_vars

(***************************************************************************)
(* C3.  Within one operation percent never decreases for as long as the    *)
(* phase is not error.                                                     *)
(***************************************************************************)
PercentNeverDecreases ==
    [][(StaysInLoop /\ phase' # "error") => progress' >= progress]_vars

(***************************************************************************)
(* C4.  A malformed frame yields no event and changes nothing, and the     *)
(* well-formed frames after it are still decoded and applied: a step of    *)
(* the read loop ends as it would had the malformed frames of its chunk    *)
(* not been in the stream, and retains the buffer the splitter left.       *)
(***************************************************************************)
MalformedFramesSkipped ==
    [][\A chunk \in Chunks :
          ReadChunk(chunk) =>
              LET split == SplitStep(buf, chunk)
                  wellFormed == SelectSeq(split.blocks, LAMBDA b : ~IsMalformed(b))
                  st == ProcessBlocks(LoopState, wellFormed)
              IN  IF st.thrown # ""
                  THEN pc' = "idle" /\ phase' = "error"
                       /\ logs' = Append(st.logs, "CLIENT ERROR: " \o st.thrown)
                  ELSE pc' = "read" /\ ObservedNext = Observed(st) /\ buf' = split.buf]_vars

\* a frame with broken JSON and a frame without data were skipped, and the
\* progress frame that came after them in the same chunk was applied
MalformedFramesWitness ==
    /\ pc = "read"
    /\ Len(emitted) = 3
    /\ emitted[1] = <<"event:", SP, "log">>
    /\ emitted[2] = Frame("log", BrokenJSON)
    /\ emitted[3] = Frame("progress", Percent50JSON)
    /\ progress = 50
    /\ logs = <<>>
    /\ phase = ""

(***************************************************************************)
(* C5.  Any transport-level failure (fetch rejected, response not OK,      *)
(* response without body, chunk read rejected) ends the operation with     *)
(* phase error and a log line carrying the failure message, and the        *)
(* operation ends in its finally block rather than with the exception.     *)
(***************************************************************************)
TransportFailureSurfaced ==
    [][\A message \in FetchFailures \cup ReadFailures :
          (FetchFails(message) \/ ReadRejects(message)) =>
              /\ phase' = "error"
              /\ logs' = Append(logs, "CLIENT ERROR: " \o message)
              /\ messages'[Len(messages')].content = "Error: " \o message
              /\ pc' = "idle"
              /\ ~busy']_vars

\* the read of the second chunk was rejected after a plan had been logged
TransportFailureWitness ==
    /\ pc = "idle"
    /\ phase = "error"
    /\ logs = <<"PLAN received", "CLIENT ERROR: network error">>
    /\ ~busy

(***************************************************************************)
(* C6.  Applying a done event stores the payload's report field when it    *)
(* is present and otherwise the whole payload, sets phase done, sets       *)
(* percent to 100 and appends exactly one log line.                        *)
(***************************************************************************)
DoneStoresReport ==
    [][\A chunk \in Chunks :
          LET blocks == SplitStep(buf, chunk).blocks
              d == DecodeBlock(blocks[1])
          IN  (ReadChunk(chunk) /\ Len(blocks) = 1 /\ ~d.skip /\ d.eventName = <<"done">>) =>
                  /\ currentReport' = Coalesce(Get(d.payload, "report"), d.payload)
                  /\ phase' = "done"
                  /\ progress' = 100
                  /\ logs' = Append(logs, "DONE.")]_vars

(***************************************************************************)
(* C7.  Events are applied strictly in the order of their frames in the    *)
(* stream: what the operation has logged and collected is what applying    *)
(* the decoded events of the text received so far, one by one, gives; and  *)
(* each step applies every complete frame of its chunk, leaving none in    *)
(* the buffer when the next chunk is read.                                 *)
(***************************************************************************)
OperationStart ==
    [phase |-> "", progress |-> 0, logs |-> <<>>, currentReport |-> Null,
     currentPlan |-> Str(""), currentSources |-> EmptyArray, thrown |-> ""]

RECURSIVE DecodedEvents(_)
DecodedEvents(frames) ==
    IF frames = <<>> THEN <<>>
    ELSE LET d == DecodeBlock(Head(frames))
         IN  (IF d.skip THEN <<>> ELSE <<d>>) \o DecodedEvents(Tail(frames))

RECURSIVE ApplyInOrder(_, _)
ApplyInOrder(st, events) ==
    IF events = <<>> \/ st.thrown # "" THEN st
    ELSE ApplyInOrder(ApplyEvent(st, Head(events).eventName, Head(events).payload),
                      Tail(events))

EventsInStreamOrder ==
    /\ [](pc = "read" =>
            LET st == ApplyInOrder(OperationStart,
                                   DecodedEvents(SplitStep(<<>>, consumed).blocks))
            IN  /\ st.thrown = ""
                /\ logs = st.logs
                /\ currentReport = st.currentReport
                /\ currentPlan = st.currentPlan
                /\ currentSources = st.currentSources)
    /\ [][\A chunk \in Chunks :
            ReadChunk(chunk) =>
                LET st == ApplyInOrder(LoopState,
                                       DecodedEvents(SplitStep(buf, chunk).blocks))
                IN  IF st.thrown # ""
                    THEN pc' = "idle" /\ phase' = "error"
                    ELSE ObservedNext = Observed(st) /\ SplitBlocks(buf') = <<buf'>>]_vars

\* two frames of one chunk and a frame of the next, logged in stream order
EventsInStreamOrderWitness ==
    /\ pc = "read"
    /\ chunkCount = 2
    /\ logs = <<"DONE.", "hi", "PLAN received">>

(***************************************************************************)
(* C8.  After the caller has tried to cancel the operation in flight (by   *)
(* sending a superseding query) the orchestrator reads no further chunk    *)
(* and never sets phase done.                                              *)
(***************************************************************************)
CancellationStopsReading ==
    [][superseded => (chunkCount' = chunkCount /\ (phase' = "done" => phase = "done"))]_vars

(***************************************************************************)
(* C9.  The read loop stops once the phase is terminal: after a done or    *)
(* error event has been applied no further chunk is read.                  *)
(***************************************************************************)
ReadLoopStopsAtTerminal ==
    [][(pc = "read" /\ phase \in Terminal) => chunkCount' = chunkCount]_vars

(***************************************************************************)
(* C10.  After a failure the log lines collected before it are not         *)
(* cleared, and the message handed to the history carries the plan and     *)
(* the sources received so far.                                            *)
(***************************************************************************)
PartialResultsSurvive ==
    [][((\E message \in ReadFailures : ReadRejects(message))
            \/ (ReadDone /\ phase = "error")) =>
          /\ SubSeq(logs', 1, Len(logs)) = logs
          /\ Truthy(currentPlan) => messages'[Len(messages')].plan = currentPlan
          /\ currentSources # EmptyArray =>
                messages'[Len(messages')].sources = currentSources]_vars

(***************************************************************************)
(* C11.  The splitter never emits the segment after the last delimiter: a  *)
(* chunk that leaves the accumulated buffer without two consecutive line   *)
(* breaks emits nothing and only appends itself to the buffer; the blocks  *)
(* a chunk does emit are each followed by their delimiter in the text at   *)
(* hand, and what follows the last delimiter is retained, not emitted.     *)
(***************************************************************************)
HasDelimiter(s) == \E i \in 1..(Len(s) - 1) : s[i] = NL /\ s[i + 1] = NL

\* each block followed by the delimiter that ended it
RECURSIVE Terminated(_)
Terminated(blocks) ==
    IF blocks = <<>> THEN <<>>
    ELSE Head(blocks) \o <<NL, NL>> \o Terminated(Tail(blocks))

TailNeverEmitted ==
    [][\A chunk \in PushTexts :
          Push(chunk) =>
              LET new == SubSeq(emitted', Len(emitted) + 1, Len(emitted'))
              IN  /\ SubSeq(emitted', 1, Len(emitted)) = emitted
                  /\ ~HasDelimiter(buf \o chunk) => (new = <<>> /\ buf' = buf \o chunk)
                  /\ Terminated(new) \o buf' = buf \o chunk
                  /\ ~HasDelimiter(buf')]_vars

\* three chunks arrived, none completed a delimiter, and nothing was emitted
TailNeverEmittedWitness ==
    /\ chunkCount = 3
    /\ consumed = <<"a", NL, "a">>
    /\ emitted = <<>>
    /\ buf = <<"a", NL, "a">>

(***************************************************************************)
(* The frame decoder alone: every frame of up to MaxFrameLines lines drawn *)
(* from FrameLines is decoded.                                             *)
(***************************************************************************)
MaxFrameLines == 3

FrameLines ==
    { <<"event:", SP, "status">>,
      <<SP, "event:", "log", SP>>,
      <<"data:", SP, "{">>,
      <<"data:", SP, "\"msg\":\"hi\"">>,
      <<SP, "data:", "}">>,
      <<"data:", SP, "{", "\"msg\":\"hi\"", "}", SP>>,
      <<"data:", SP, "null">>,
      <<"id:", SP, "7">>,
      <<>> }

Frames == { JoinLines(ls) : ls \in UNION { [1..n -> FrameLines] : n \in 1..MaxFrameLines } }

\* a block is handed to the decoder
DecodeInit ==
    /\ PageInit
    /\ frame \in Frames
    /\ decoded = NotDecoded
    /\ markdown = <<>>
    /\ rendered = NotRendered

\* the decoder applied to the block: page.tsx:132-147
Decode ==
    /\ decoded = NotDecoded
    /\ decoded' = DecodeBlock(frame)
    /\ UNCHANGED <<messages, phase, busy, logs, progress, pc, buf, currentReport,
                   currentPlan, currentSources, timers, consumed, emitted, superseded,
                   opCount, chunkCount, budget, request, frame, markdown, rendered>>

DecodeNext == Decode

DecodeSpec == DecodeInit /\ [][DecodeNext]_vars

(***************************************************************************)
(* C12.  Decoding a frame: with every line trimmed, the event name is the  *)
(* trimmed text after the event: prefix of the last event line, or message *)
(* when there is none; the payload is the JSON value of the texts after    *)
(* the data: prefix of the data lines, in order, joined by line breaks;    *)
(* the decoder yields nothing exactly when there is no data line or the    *)
(* joined text is not JSON.                                                *)
(***************************************************************************)
\* the trimmed lines of a block that begin with event:
EventLines(block) ==
    LET lines == SplitLines(block)
    IN  { i \in 1..Len(lines) : StartsWith(Trim(lines[i]), "event:") }

LastEventName(block) ==
    LET lines == SplitLines(block)
        last == CHOOSE i \in EventLines(block) : \A j \in EventLines(block) : j <= i
    IN  IF EventLines(block) = {} THEN <<"message">>
        ELSE Trim(SlicePrefix(Trim(lines[last])))

FrameDecoding ==
    decoded # NotDecoded =>
        /\ decoded.skip <=> IsMalformed(frame)
        /\ ~decoded.skip =>
              /\ decoded.eventName = LastEventName(frame)
              /\ decoded.payload = JSONParse(JoinLines(DataTexts(frame))).v

\* two event lines, the second padded with blanks, and a payload over three data lines
FrameDecodingWitness ==
    /\ frame = <<"event:", SP, "status", NL, SP, "event:", "log", SP, NL,
                 "data:", SP, "{", "\"msg\":\"hi\"", "}", SP>>
    /\ decoded # NotDecoded
    /\ ~decoded.skip
    /\ decoded.eventName = <<"log">>
    /\ Get(decoded.payload, "msg") = Str("hi")

(***************************************************************************)
(* The renderers.  A markdown text is a sequence of lexemes: the           *)
(* characters # * [ ] | - . ( ) each by themselves, the blank, the line    *)
(* break, single digits, and whole words.  An HTML tag of the output is    *)
(* one lexeme, written without its style attribute; the style attributes   *)
(* of the source hold none of the characters the later passes look for at  *)
(* the places they look for them.                                          *)
(***************************************************************************)
Digits == {"0", "1", "2", "3", "4", "5", "6", "7", "8", "9"}

\* String.prototype.includes for a one-lexeme needle
Includes(s, c) == \E i \in 1..Len(s) : s[i] = c

\* p occurs in s at index j
Occurs(s, p, j) == j >= 1 /\ j + Len(p) - 1 <= Len(s) /\ SubSeq(s, j, j + Len(p) - 1) = p

Min(S) == CHOOSE x \in S : \A y \in S : x <= y
Max(S) == CHOOSE x \in S : \A y \in S : y <= x

\* s.replace(/open(X)close/g, tagOpen $1 tagClose) where X is the shortest run of
\* at least minLen lexemes outside stop: /\*\*(.*?)\*\*/g has stop = {"\n"}
RECURSIVE ReplaceDelimited(_, _, _, _, _, _, _, _)
ReplaceDelimited(s, i, open, close, stop, minLen, tagOpen, tagClose) ==
    IF i > Len(s) THEN <<>>
    ELSE LET from == i + Len(open)
             ends == { j \in (from + minLen)..Len(s) :
                          /\ Occurs(s, close, j)
                          /\ \A k \in from..(j - 1) : s[k] \notin stop }
         IN  IF Occurs(s, open, i) /\ ends # {}
             THEN tagOpen \o SubSeq(s, from, Min(ends) - 1) \o tagClose
                  \o ReplaceDelimited(s, Min(ends) + Len(close), open, close, stop,
                                      minLen, tagOpen, tagClose)
             ELSE <<s[i]>> \o ReplaceDelimited(s, i + 1, open, close, stop, minLen,
                                               tagOpen, tagClose)

\* the index of the ] that closes a citation [digits] opened at i, 0 if none
CitationEnd(s, i) ==
    LET after == { k \in (i + 1)..Len(s) : s[k] \notin Digits }
    IN  IF i <= Len(s) /\ s[i] = "[" /\ after # {} /\ Min(after) > i + 1
           /\ s[Min(after)] = "]"
        THEN Min(after) ELSE 0

\* s.replace(/\[(\d+)\]/g, '<sup ...>[$1]</sup>'); withId: the tag has data-citation="$1"
RECURSIVE ReplaceCitations(_, _, _)
ReplaceCitations(s, i, withId) ==
    IF i > Len(s) THEN <<>>
    ELSE LET e == CitationEnd(s, i)
             digits == SubSeq(s, i + 1, e - 1)
             tag == IF withId THEN <<"<sup data-citation=\"">> \o digits \o <<"\">">>
                    ELSE <<"<sup>">>
         IN  IF e # 0
             THEN tag \o <<"[">> \o digits \o <<"]", "</sup>">>
                  \o ReplaceCitations(s, e + 1, withId)
             ELSE <<s[i]>> \o ReplaceCitations(s, i + 1, withId)

\* String.prototype.split("|")
RECURSIVE SplitCellsFrom(_, _, _, _)
SplitCellsFrom(s, i, cur, acc) ==
    IF i > Len(s) THEN Append(acc, cur)
    ELSE IF s[i] = "|" THEN SplitCellsFrom(s, i + 1, <<>>, Append(acc, cur))
    ELSE SplitCellsFrom(s, i + 1, Append(cur, s[i]), acc)

\* row.split("|").map((c) => c.trim()).filter((c) => c): Report.tsx:110-113, 124-127
Cells(row) ==
    LET pieces == SplitCellsFrom(row, 1, <<>>, <<>>)
        trimmed == [i \in 1..Len(pieces) |-> Trim(pieces[i])]
    IN  SelectSeq(trimmed, LAMBDA c : c # <<>>)

\* /^[\|\-\s]+$/.test(row): Report.tsx:96
IsSeparatorRow(row) ==
    row # <<>> /\ \A i \in 1..Len(row) : row[i] \in {"|", "-"} \cup WhiteSpace

\* headerCells.forEach: Report.tsx:115-117
RECURSIVE HeaderCells(_)
HeaderCells(cells) ==
    IF cells = <<>> THEN <<>>
    ELSE <<"<th>">> \o Head(cells) \o <<"</th>">> \o HeaderCells(Tail(cells))

\* cells.forEach: Report.tsx:129-136
RECURSIVE BodyCells(_)
BodyCells(cells) ==
    IF cells = <<>> THEN <<>>
    ELSE <<"<td>">> \o ReplaceCitations(Head(cells), 1, FALSE) \o <<"</td>">>
         \o BodyCells(Tail(cells))

\* for (let i = 1; i < contentRows.length; i++): Report.tsx:123-138
RECURSIVE BodyRows(_)
BodyRows(rows) ==
    IF rows = <<>> THEN <<>>
    ELSE <<"<tr>">> \o BodyCells(Cells(Head(rows))) \o <<"</tr>">> \o BodyRows(Tail(rows))

\* a table builder that does not filter the separator rows out
buildTableHtmlKeepsSeparators(rows) ==
    IF rows = <<>> THEN <<>>
    ELSE <<"<table>", "<thead>", "<tr>">> \o HeaderCells(Cells(rows[1]))
         \o <<"</tr>", "</thead>">>
         \o (IF Len(rows) > 1
             THEN <<"<tbody>">> \o BodyRows(Tail(rows)) \o <<"</tbody>">>
             ELSE <<>>)
         \o <<"</table>">>

\* Report.tsx:92-144
buildTableHtml(rows) ==
    LET contentRows == SelectSeq(rows, LAMBDA row : ~IsSeparatorRow(row))
    IN  IF rows = <<>> \/ contentRows = <<>> THEN <<>>
        ELSE <<"<table>", "<thead>", "<tr>">> \o HeaderCells(Cells(contentRows[1]))
             \o <<"</tr>", "</thead>">>
             \o (IF Len(contentRows) > 1
                 THEN <<"<tbody>">> \o BodyRows(Tail(contentRows)) \o <<"</tbody>">>
                 ELSE <<>>)
             \o <<"</table>">>

\* the loop over the lines: Report.tsx:27-49; what it pushes from line i on
RECURSIVE TableLines(_, _, _)
TableLines(lines, i, tableRows) ==
    IF i > Len(lines) THEN <<>>
    ELSE LET line == Trim(lines[i])
             rows == Append(tableRows, line)
         IN  IF Includes(line, "|")
             THEN IF i = Len(lines) \/ ~Includes(lines[i + 1], "|")
                  THEN <<buildTableHtml(rows)>> \o TableLines(lines, i + 1, <<>>)
                  ELSE TableLines(lines, i + 1, rows)
             ELSE <<line>> \o TableLines(lines, i + 1, tableRows)

\* Report.tsx:22-51
Tables(text) == JoinLines(TableLines(SplitLines(text), 1, <<>>))

\* line.replace(/^marks (.*$)/, tagOpen $1 tagClose) for one line of the text
HeaderLine(line, marks, tagOpen, tagClose) ==
    IF Occurs(line, marks \o <<SP>>, 1)
    THEN <<tagOpen>> \o SubSeq(line, Len(marks) + 2, Len(line)) \o <<tagClose>>
    ELSE line

\* the flags gim: the pattern is tried at the start of every line
Header(text, marks, tagOpen, tagClose) ==
    LET lines == SplitLines(text)
    IN  JoinLines([i \in 1..Len(lines) |-> HeaderLine(lines[i], marks, tagOpen, tagClose)])

\* Report.tsx:53-65, part_000:20-32: h3, then h2, then h1
Headers(text) ==
    Header(Header(Header(text, <<"#", "#", "#">>, "<h3>", "</h3>"),
                  <<"#", "#">>, "<h2>", "</h2>"),
           <<"#">>, "<h1>", "</h1>")

\* Report.tsx:68: html.replace(/\*\*(.*?)\*\*/g, "<strong>$1</strong>")
Bold(text, tagOpen) ==
    ReplaceDelimited(text, 1, <<"*", "*">>, <<"*", "*">>, {NL}, 0, <<tagOpen>>, <<"</strong>">>)

\* Report.tsx:71: html.replace(/\*(.*?)\*/g, "<em>$1</em>")
Italic(text) ==
    ReplaceDelimited(text, 1, <<"*">>, <<"*">>, {NL}, 0, <<"<em>">>, <<"</em>">>)

\* s.replace(/pattern/g, replacement) for a literal pattern
RECURSIVE ReplaceAll(_, _, _, _)
ReplaceAll(s, i, pattern, replacement) ==
    IF i > Len(s) THEN <<>>
    ELSE IF Occurs(s, pattern, i)
         THEN replacement \o ReplaceAll(s, i + Len(pattern), pattern, replacement)
    ELSE <<s[i]>> \o ReplaceAll(s, i + 1, pattern, replacement)

\* Report.tsx:80-81, part_000:72-73
LineBreaks(text) ==
    ReplaceAll(ReplaceAll(text, 1, <<NL, NL>>, <<"<br>", "<br>">>), 1, <<NL>>, <<"<br>">>)

\* a renderer that runs the single-marker pass before the double-marker pass
parseMarkdownItalicFirst(text) ==
    LineBreaks(ReplaceCitations(Bold(Italic(Headers(Tables(text))), "<strong>"), 1, TRUE))

\* Report.tsx:18-84
parseMarkdown(text) ==
    LineBreaks(ReplaceCitations(Italic(Bold(Headers(Tables(text)), "<strong>")), 1, TRUE))

\* the lexeme of the grave accent (U+0060) that delimits code
Backtick == "grave"

\* part_000:44-53: a block between triple grave accents, a span between single ones
CodeBlocks(text) ==
    ReplaceDelimited(text, 1, <<Backtick, Backtick, Backtick>>,
                     <<Backtick, Backtick, Backtick>>, {}, 0,
                     <<"<pre>", "<code>">>, <<"</code>", "</pre>">>)

InlineCode(text) ==
    ReplaceDelimited(text, 1, <<Backtick>>, <<Backtick>>, {Backtick}, 1,
                     <<"<code>">>, <<"</code>">>)

\* part_000:56: html.replace(/^[\-\*] (.+)$/gim, "<li>$1</li>")
BulletItems(text) ==
    LET lines == SplitLines(text)
        item(line) == IF Len(line) >= 3 /\ line[1] \in {"-", "*"} /\ line[2] = SP
                      THEN <<"<li>">> \o SubSeq(line, 3, Len(line)) \o <<"</li>">>
                      ELSE line
    IN  JoinLines([i \in 1..Len(lines) |-> item(lines[i])])

\* part_000:57-60: html.replace(/(<li[^>]*>.*<\/li>)/s, "<ul>$1</ul>"), without g:
\* from the first item tag to the last closing item tag
WrapItems(text) ==
    LET opens == { i \in 1..Len(text) : text[i] = "<li>" }
        closes == { j \in 1..Len(text) : text[j] = "</li>" /\ opens # {} /\ j > Min(opens) }
    IN  IF opens = {} \/ closes = {} THEN text
        ELSE SubSeq(text, 1, Min(opens) - 1) \o <<"<ul>">>
             \o SubSeq(text, Min(opens), Max(closes)) \o <<"</ul>">>
             \o SubSeq(text, Max(closes) + 1, Len(text))

\* part_000:63: html.replace(/^\d+\. (.+)$/gim, "<li>$1</li>")
NumberedItems(text) ==
    LET lines == SplitLines(text)
        after(line) == Min({ k \in 1..(Len(line) + 1) : k > Len(line) \/ line[k] \notin Digits })
        item(line) == IF after(line) > 1 /\ Occurs(line, <<".", SP>>, after(line))
                         /\ Len(line) >= after(line) + 2
                      THEN <<"<li>">> \o SubSeq(line, after(line) + 2, Len(line)) \o <<"</li>">>
                      ELSE line
    IN  JoinLines([i \in 1..Len(lines) |-> item(lines[i])])

\* part_000:66-69: a link [text](url) becomes an anchor around text whose href is url
RECURSIVE Links(_, _)
Links(s, i) ==
    IF i > Len(s) THEN <<>>
    ELSE LET brackets == { j \in (i + 1)..Len(s) : s[j] = "]" }
             j == Min(brackets)
             parens == { k \in (j + 2)..Len(s) : s[k] = ")" }
             k == Min(parens)
         IN  IF s[i] = "[" /\ brackets # {} /\ j >= i + 2 /\ Occurs(s, <<"(">>, j + 1)
                /\ parens # {} /\ k >= j + 3
             THEN <<"<a href=\"">> \o SubSeq(s, j + 2, k - 1) \o <<"\">">>
                  \o SubSeq(s, i + 1, j - 1) \o <<"</a>">> \o Links(s, k + 1)
             ELSE <<s[i]>> \o Links(s, i + 1)

\* part_000:17-76
parseSimpleMarkdown(text) ==
    LineBreaks(
      Links(
        NumberedItems(
          WrapItems(
            BulletItems(
              InlineCode(
                CodeBlocks(
                  Italic(
                    Bold(Headers(text), "<strong style=\"font-weight: 600;\">"))))))),
        1))

(***************************************************************************)
(* The renderers alone: every text of up to MaxLines lines drawn from      *)
(* MarkdownLines is rendered by both.                                      *)
(***************************************************************************)
MaxLines == 3

HeaderRow == <<"A", SP, "|", SP, "B">>
SeparatorRow == <<"-", "-", "-", "|", "-", "-", "-">>
BodyRow == <<"1", SP, "|", SP, "2">>
CitationLine == <<"Claim", SP, "[", "1", "]">>
CitationRow == <<"|", SP, "Claim", SP, "[", "1", "]", SP, "|">>
EmphasisLine == <<"*", "*", "bold", "*", "*", SP, "and", SP, "*", "italic", "*">>
HeadingLine == <<"#", SP, "Hi">>
GapRow == <<"|", SP, "a", SP, "|", SP, "|", SP, "b", SP, "|">>

MarkdownLines ==
    { HeaderRow, SeparatorRow, BodyRow, CitationLine, CitationRow, EmphasisLine,
      HeadingLine, GapRow, <<>> }

Markdowns ==
    { JoinLines(ls) : ls \in UNION { [1..n -> MarkdownLines] : n \in 1..MaxLines } }

\* a text is handed to the renderers
RenderInit ==
    /\ PageInit
    /\ frame = <<>>
    /\ decoded = NotDecoded
    /\ markdown \in Markdowns
    /\ rendered = NotRendered

\* useMemo(() => parseMarkdown(report.content)) in Report, and
\* parseSimpleMarkdown(text) in FormattedText
Render ==
    /\ rendered = NotRendered
    /\ rendered' = [html |-> parseMarkdown(markdown),
                    formatted |-> parseSimpleMarkdown(markdown)]
    /\ UNCHANGED <<messages, phase, busy, logs, progress, pc, buf, currentReport,
                   currentPlan, currentSources, timers, consumed, emitted, superseded,
                   opCount, chunkCount, budget, request, frame, decoded, markdown>>

RenderNext == Render

RenderSpec == RenderInit /\ [][RenderNext]_vars

(***************************************************************************)
(* The stream of the end-to-end example: the three chunks, in any order    *)
(* and number up to MaxFeed.                                               *)
(***************************************************************************)
MaxFeed == 3

HiReportJSON == <<"{", "\"report\":{\"content\":\"# Hi\",\"citations\":[]}", "}">>

StatusChunk == Frame("status", PlanningJSON) \o BlankLine
ProgressChunk == Frame("progress", Percent50JSON) \o BlankLine
DoneChunk == Frame("done", HiReportJSON) \o BlankLine

EndToEndChunks == { StatusChunk, ProgressChunk, DoneChunk }

Feed(chunk) ==
    /\ chunkCount < MaxFeed
    /\ Deliver(chunk)

EndToEndNext ==
    \/ \E query \in Queries : SendResearchMessage(query)
    \/ FetchResolves
    \/ \E chunk \in EndToEndChunks : Feed(chunk)
    \/ ReadDone
    \/ \E message \in ReadFailures : ReadRejects(message)
    \/ TimerFires

EndToEndSpec == Init /\ [][EndToEndNext]_vars

\* the characters of a report's content as lexemes of markdown text
Characters ==
    ("# Hi" :> <<"#", SP, "Hi">>) @@ ("" :> <<>>)

(***************************************************************************)
(* C13.  End to end: when the chunks carrying status {phase: planning},    *)
(* progress {percent: 50} and done {report: {content: "# Hi", citations:   *)
(* []}} have been fed in this order, the phase is done, the percent is     *)
(* 100 and the report at hand has the content # Hi, which renders as a     *)
(* top-level heading around Hi; when the stream then ends, that report is  *)
(* stored with the assistant message, and on a page that ran no earlier    *)
(* operation phase and percent still are done and 100.                     *)
(***************************************************************************)
LastMessage(ms) == ms[Len(ms)]

EndToEnd ==
    [][/\ (Feed(DoneChunk) /\ consumed = StatusChunk \o ProgressChunk) =>
              /\ phase' = "done"
              /\ progress' = 100
              /\ Get(currentReport', "content") = Str("# Hi")
              /\ parseMarkdown(Characters[Get(currentReport', "content").s])
                     = <<"<h1>", "Hi", "</h1>">>
       /\ (ReadDone /\ consumed = StatusChunk \o ProgressChunk \o DoneChunk) =>
              /\ LastMessage(messages').content = "Research complete!"
              /\ Get(LastMessage(messages').report, "content") = Str("# Hi")
              /\ opCount = 1 => (phase' = "done" /\ progress' = 100)]_vars

\* the stream of the three chunks has ended and its report is in the history
EndToEndWitness ==
    /\ pc = "idle"
    /\ chunkCount = 3
    /\ logs = <<"STATUS: planning", "DONE.">>
    /\ phase = "done"
    /\ progress = 100
    /\ messages # <<>>
    /\ Get(LastMessage(messages).report, "content") = Str("# Hi")

(***************************************************************************)
(* C14.  Table building: a row made only of |, - and whitespace is never   *)
(* emitted; a table with no other row produces nothing; otherwise the      *)
(* first remaining row is the header row and every later remaining row is  *)
(* one body row, in order.  A | B, ---|---, 1 | 2 gives the header cells   *)
(* A, B and one body row with the cells 1, 2.                              *)
(***************************************************************************)
\* the text is one table: every line holds a |
IsTable(text) ==
    \A i \in 1..Len(SplitLines(text)) : Includes(SplitLines(text)[i], "|")

SeparatorOnly(row) == \A i \in 1..Len(row) : row[i] \in {"|", "-", SP, NL}

Count(s, c) == Cardinality({ i \in 1..Len(s) : s[i] = c })

\* the pieces of s that lie between a lexeme of opens and the next lexeme of closes
RECURSIVE Between(_, _, _, _, _)
Between(s, opens, closes, inside, cur) ==
    IF s = <<>> THEN <<>>
    ELSE IF ~inside
         THEN Between(Tail(s), opens, closes, Head(s) \in opens, <<>>)
    ELSE IF Head(s) \in closes
         THEN <<cur>> \o Between(Tail(s), opens, closes, FALSE, <<>>)
    ELSE Between(Tail(s), opens, closes, TRUE, Append(cur, Head(s)))

RowsOf(markup) == Between(markup, {"<tr>"}, {"</tr>"}, FALSE, <<>>)
CellsOf(row) == Between(row, {"<th>", "<td>"}, {"</th>", "</td>"}, FALSE, <<>>)

TableExample == JoinLines(<<HeaderRow, SeparatorRow, BodyRow>>)

TableExampleMarkup ==
    <<"<table>", "<thead>", "<tr>", "<th>", "A", "</th>", "<th>", "B", "</th>", "</tr>",
      "</thead>", "<tbody>", "<tr>", "<td>", "1", "</td>", "<td>", "2", "</td>", "</tr>",
      "</tbody>", "</table>">>

TableBuilding ==
    rendered # NotRendered =>
        LET lines == SplitLines(markdown)
            rows == [i \in 1..Len(lines) |-> Trim(lines[i])]
            kept == SelectSeq(rows, LAMBDA row : ~SeparatorOnly(row))
            markup == rendered.html
            emittedRows == RowsOf(markup)
        IN  /\ ~Includes(markup, "-")
            /\ markdown = TableExample => markup = TableExampleMarkup
            /\ IsTable(markdown) =>
                  /\ kept = <<>> => markup = <<>>
                  /\ Len(emittedRows) = Len(kept)
                  /\ Count(markup, "<table>") = (IF kept = <<>> THEN 0 ELSE 1)
                  /\ \A k \in 1..Len(kept) :
                        /\ Includes(emittedRows[k], "<th>") <=> k = 1
                        /\ Includes(emittedRows[k], "<td>") <=> k > 1
                        /\ ~Includes(kept[k], "[") =>
                              CellsOf(emittedRows[k]) = Cells(kept[k])
                  /\ kept # <<>> =>
                        /\ Occurs(markup, <<"<table>", "<thead>", "<tr>">>, 1)
                        /\ Count(markup, "<thead>") = 1
                        /\ Len(kept) > 1 <=> Count(markup, "<tbody>") = 1

\* the example table has been rendered
TableBuildingWitness ==
    /\ markdown = TableExample
    /\ rendered # NotRendered
    /\ rendered.html = TableExampleMarkup

(***************************************************************************)
(* C15.  Citation substitution applies identically inside and outside      *)
(* tables: every [n] of the text, in a plain line or in a table cell, is   *)
(* in the final markup exactly one superscript marker, which carries n as  *)
(* its citation id; no marker is without the id and none lies inside       *)
(* another.                                                                *)
(***************************************************************************)
CitationMarkers ==
    rendered # NotRendered =>
        LET markup == rendered.html
            withId == Count(markup, "<sup data-citation=\"")
            withoutId == Count(markup, "<sup>")
        IN  /\ withoutId = 0
            /\ withId = Count(markdown, "[")
            /\ \A i \in 1..Len(markup) :
                  markup[i] = "<sup data-citation=\"" =>
                      /\ Occurs(markup, <<"1", "\">", "[", "1", "]", "</sup>">>, i + 1)
                      /\ (i + 7 <= Len(markup) => markup[i + 7] # "</sup>")

(***************************************************************************)
(* C16.  Emphasis ordering: the double-marker pass runs before the         *)
(* single-marker pass, so **bold** and *italic* renders one strong element *)
(* around bold and one italic element around italic, no asterisk is left   *)
(* and neither element overlaps the other or lies inside it.               *)
(***************************************************************************)
EmphasisTags(strong) == {strong, "</strong>", "<em>", "</em>"}

RECURSIVE Repeat(_, _)
Repeat(s, k) == IF k = 0 THEN <<>> ELSE s \o Repeat(s, k - 1)

\* how many lines of the text are the example line
EmphasisLines(text) ==
    Cardinality({ i \in 1..Len(SplitLines(text)) : SplitLines(text)[i] = EmphasisLine })

EmphasisRendered(markup, strong) ==
    /\ ~Includes(markup, "*")
    /\ SelectSeq(markup, LAMBDA c : c \in EmphasisTags(strong))
          = Repeat(<<strong, "</strong>", "<em>", "</em>">>, EmphasisLines(markdown))
    /\ markdown = EmphasisLine =>
          markup = <<strong, "bold", "</strong>", SP, "and", SP, "<em>", "italic", "</em>">>

EmphasisOrdering ==
    rendered # NotRendered =>
        /\ EmphasisRendered(rendered.html, "<strong>")
        /\ EmphasisRendered(rendered.formatted, "<strong style=\"font-weight: 600;\">")

\* the example line has been rendered by both renderers
EmphasisOrderingWitness ==
    /\ markdown = EmphasisLine
    /\ rendered # NotRendered
    /\ rendered.html =
          <<"<strong>", "bold", "</strong>", SP, "and", SP, "<em>", "italic", "</em>">>
    /\ Len(rendered.formatted) = 9

(***************************************************************************)
(* The budget field and the two kinds of request.                          *)
(***************************************************************************)
\* UI_CONFIG.SEARCH_BUDGET: constants.ts:96-100
SearchBudgetMin == 1
SearchBudgetMax == 10

\* what can be typed into the number field, with Number(e.target.value) of it
TypedBudget ==
    ("" :> 0) @@ ("0" :> 0) @@ ("1" :> 1) @@ ("4" :> 4) @@ ("10" :> 10) @@
    ("11" :> 11) @@ ("-3" :> -3)

\* onChange={e => setBudget(Number(e.target.value))}, disabled={busy}: page.tsx:383-392
SetBudget(value) ==
    /\ ~busy
    /\ budget' = TypedBudget[value]
    /\ UNCHANGED <<messages, phase, busy, logs, progress, pc, buf, currentReport,
                   currentPlan, currentSources, timers, consumed, emitted, superseded,
                   opCount, chunkCount, request, helperVars>>

ChatMessage(role, content) == [role |-> role, content |-> content, isResearch |-> FALSE]

\* sendChatMessage up to the await of fetch: page.tsx:41-58
SendChatMessage(query) ==
    /\ opCount < MaxOps
    /\ Trim(query) # <<>>
    /\ ~busy
    /\ messages' = Append(messages, ChatMessage("user", query))
    /\ busy' = TRUE
    /\ pc' = "chat"
    /\ request' = Request("/chat", budget)
    /\ opCount' = opCount + 1
    /\ UNCHANGED <<phase, logs, progress, buf, currentReport, currentPlan,
                   currentSources, timers, consumed, emitted, superseded, chunkCount,
                   budget, helperVars>>

\* data.response, or the message of what was thrown: page.tsx:60-80
ChatOutcomes == { "answer", "Error: Failed to fetch" }

\* the rest of sendChatMessage: page.tsx:60-82
ChatSettles(content) ==
    /\ pc = "chat"
    /\ messages' = Append(messages, ChatMessage("assistant", content))
    /\ busy' = FALSE
    /\ pc' = "idle"
    /\ UNCHANGED <<phase, logs, progress, buf, currentReport, currentPlan,
                   currentSources, timers, consumed, emitted, superseded, opCount,
                   chunkCount, budget, request, helperVars>>

\* sendMessage sends a research or a chat request, by researchMode: page.tsx:207-213
BudgetNext ==
    \/ \E value \in DOMAIN TypedBudget : SetBudget(value)
    \/ \E query \in Queries : SendResearchMessage(query)
    \/ \E query \in Queries : SendChatMessage(query)
    \/ \E content \in ChatOutcomes : ChatSettles(content)
    \/ \E message \in FetchFailures : FetchFails(message)
    \/ FetchResolves
    \/ ReadDone
    \/ TimerFires

BudgetSpec == Init /\ [][BudgetNext]_vars

(***************************************************************************)
(* C17.  Every research or chat request handed to fetch carries a          *)
(* search_budget between 1 and 10 inclusive, whatever was typed into the   *)
(* budget field.                                                           *)
(***************************************************************************)
BudgetInRange ==
    request # NoRequest => request.search_budget \in SearchBudgetMin..SearchBudgetMax

(***************************************************************************)
(* The event handlers on payloads of every shape.                          *)
(***************************************************************************)
HandlerFrames ==
    { Frame("status", PlanningJSON),
      Frame("status", <<"{", "\"phase\":\"searching\"", "}">>),
      Frame("status", <<"{", "\"phase\":\"\"", "}">>),
      Frame("status", EmptyJSON),
      Frame("status", <<"null">>),
      Frame("error", MessageJSON),
      Frame("error", <<"{", "\"message\":\"\"", "}">>),
      Frame("error", EmptyJSON),
      Frame("error", <<"null">>),
      Frame("progress", Percent50JSON),
      Frame("progress", <<"{", "\"percent\":150", "}">>),
      Frame("progress", <<"{", "\"percent\":-5", "}">>),
      Frame("progress", <<"{", "\"percent\":\"50\"", "}">>),
      Frame("progress", <<"{", "\"percent\":null", "}">>),
      Frame("progress", EmptyJSON),
      Frame("progress", <<"null">>) }

HandlerChunks == { f \o BlankLine : f \in HandlerFrames }

HandlerNext ==
    \/ \E query \in Queries : SendResearchMessage(query)
    \/ FetchResolves
    \/ \E chunk \in HandlerChunks : ReadChunk(chunk)
    \/ ReadDone
    \/ TimerFires

HandlerSpec == Init /\ [][HandlerNext]_vars

\* the one event of a chunk of HandlerChunks, as the decoder hands it on
EventOf(chunk) == DecodeBlock(SplitStep(buf, chunk).blocks[1])

\* the chunk holds one event of this name and the read loop takes it
Applies(chunk, name) ==
    /\ ReadChunk(chunk)
    /\ Len(SplitStep(buf, chunk).blocks) = 1
    /\ ~EventOf(chunk).skip
    /\ EventOf(chunk).eventName = <<name>>

OneLineAppended == Len(logs') = Len(logs) + 1 /\ SubSeq(logs', 1, Len(logs)) = logs

(***************************************************************************)
(* C18.  Applying a status event sets the phase to the phase field of the  *)
(* payload, or to idle (the empty phase) when the field is empty or        *)
(* missing, appends exactly one log line, and leaves percent, plan,        *)
(* sources and report unchanged.                                           *)
(***************************************************************************)
StatusApplied ==
    [][\A chunk \in HandlerChunks :
          Applies(chunk, "status") =>
              LET field == Get(EventOf(chunk).payload, "phase")
              IN  /\ phase' = (IF field.t = "string" THEN field.s ELSE "")
                  /\ OneLineAppended
                  /\ UNCHANGED <<progress, currentPlan, currentSources, currentReport>>]_vars

(***************************************************************************)
(* C19.  An error event applied in a non-terminal phase sets the phase to  *)
(* error, appends one log line that contains the message of the payload,   *)
(* or a generic placeholder when the message is missing or empty, and      *)
(* leaves percent, plan, sources and report unchanged.                     *)
(***************************************************************************)
\* the log lines of the page that contain the text m
LinesContaining(m) == { "ERROR: " \o m, "CLIENT ERROR: " \o m }

ErrorApplied ==
    [][\A chunk \in HandlerChunks :
          (Applies(chunk, "error") /\ phase \notin Terminal) =>
              LET field == Get(EventOf(chunk).payload, "message")
                  text == IF field.t = "string" /\ field.s # "" THEN field.s ELSE "unknown"
              IN  /\ phase' = "error"
                  /\ \E line \in LinesContaining(text) : logs' = Append(logs, line)
                  /\ UNCHANGED <<progress, currentPlan, currentSources, currentReport>>]_vars

(***************************************************************************)
(* C20.  A progress event sets the percent to the percent of the payload   *)
(* when that is a number and otherwise changes nothing and raises no       *)
(* error; phase, logs, plan, sources and report are unchanged either way.  *)
(***************************************************************************)
ProgressApplied ==
    [][\A chunk \in HandlerChunks :
          Applies(chunk, "progress") =>
              LET field == Get(EventOf(chunk).payload, "percent")
              IN  /\ progress' = (IF field.t = "number" THEN field.n ELSE progress)
                  /\ pc' = "read"
                  /\ UNCHANGED <<phase, logs, messages, currentPlan, currentSources,
                                 currentReport>>]_vars

(***************************************************************************)
(* Events of names the handlers do not test for, among events they know.   *)
(***************************************************************************)
\* the names of the if-else chain: page.tsx:149-170
KnownNames ==
    { <<"status">>, <<"plan">>, <<"sources">>, <<"log">>, <<"progress">>,
      <<"done">>, <<"error">> }

\* a block without an event line keeps the default name message
UnknownFrames ==
    { Frame("heartbeat", LogJSON),
      Frame("heartbeat", <<"null">>),
      Frame("Status", PlanningJSON),
      Frame("message", Percent50JSON),
      DataLine(MessageJSON) }

KnownFrames ==
    { Frame("status", PlanningJSON),
      Frame("progress", Percent20JSON),
      Frame("log", LogJSON) }

\* one frame a chunk, and an unknown frame followed by a known one in one chunk
UnknownChunks ==
    { f \o BlankLine : f \in UnknownFrames \cup KnownFrames }
    \cup { Frame("heartbeat", <<"null">>) \o BlankLine \o k \o BlankLine : k \in KnownFrames }

UnknownNext ==
    \/ \E query \in Queries : SendResearchMessage(query)
    \/ FetchResolves
    \/ \E chunk \in UnknownChunks : ReadChunk(chunk)
    \/ ReadDone
    \/ TimerFires

UnknownSpec == Init /\ [][UnknownNext]_vars

(***************************************************************************)
(* C21.  A well-formed event whose name is none of status, log, progress,  *)
(* plan, sources, done, error (the default name message among them) leaves *)
(* phase, percent, log lines, plan, sources and report unchanged, and the  *)
(* events after it are still applied: the read loop goes on, and a known   *)
(* event that follows it in the same chunk has the effect it has alone.    *)
(***************************************************************************)
UnknownIgnored ==
    [][/\ \A chunk \in UnknownChunks :
             ( /\ ReadChunk(chunk)
               /\ Len(SplitStep(buf, chunk).blocks) = 1
               /\ ~EventOf(chunk).skip
               /\ EventOf(chunk).eventName \notin KnownNames ) =>
                 /\ ObservedNext = Observed(LoopState)
                 /\ UNCHANGED <<messages, busy>>
                 /\ pc' = "read"
       /\ \A k \in KnownFrames :
             ReadChunk(Frame("heartbeat", <<"null">>) \o BlankLine \o k \o BlankLine) =>
                 /\ ObservedNext =
                       Observed(ProcessBlocks(LoopState, SplitStep(buf, k \o BlankLine).blocks))
                 /\ pc' = "read"]_vars

\* an event of the default name was taken, and the status event after it applied
UnknownIgnoredWitness ==
    /\ pc = "read"
    /\ consumed = DataLine(MessageJSON) \o BlankLine \o Frame("status", PlanningJSON) \o BlankLine
    /\ phase = "planning"
    /\ logs = <<"STATUS: planning">>
    /\ progress = 0

(***************************************************************************)
(* C22.  The percent is within 0..100 inclusive in every state reached by  *)
(* any sequence of events, progress events whose numeric percent is        *)
(* negative or greater than 100 among them.                                *)
(***************************************************************************)
PercentInRange == progress \in 0..100

(***************************************************************************)
(* C23.  Table cell splitting drops only the empty cells that a leading or *)
(* a trailing separator produces: for every content row of a table an      *)
(* empty cell between two separators inside the row is kept, so the row    *)
(* keeps the number and the positions of its columns (| a | | b | yields   *)
(* three cells, the middle one empty).                                     *)
(***************************************************************************)
\* the cells of a row as written: the trimmed pieces between the separators,
\* without the empty piece before a leading and after a trailing separator
CellsAsWritten(row) ==
    LET pieces == SplitCellsFrom(row, 1, <<>>, <<>>)
        trimmed == [i \in 1..Len(pieces) |-> Trim(pieces[i])]
        from == IF trimmed[1] = <<>> THEN 2 ELSE 1
        to == IF trimmed[Len(trimmed)] = <<>> THEN Len(trimmed) - 1 ELSE Len(trimmed)
    IN  SubSeq(trimmed, from, to)

\* CellsOf, with the cells that hold nothing
RECURSIVE CellsWithEmpty(_, _, _)
CellsWithEmpty(s, inside, cur) ==
    IF s = <<>> THEN <<>>
    ELSE IF Head(s) \in {"<th>", "<td>"} THEN CellsWithEmpty(Tail(s), TRUE, <<>>)
    ELSE IF Head(s) \in {"</th>", "</td>"}
         THEN <<cur>> \o CellsWithEmpty(Tail(s), FALSE, <<>>)
    ELSE IF inside THEN CellsWithEmpty(Tail(s), TRUE, Append(cur, Head(s)))
    ELSE CellsWithEmpty(Tail(s), FALSE, <<>>)

InteriorCellsKept ==
    (rendered # NotRendered /\ IsTable(markdown)) =>
        LET lines == SplitLines(markdown)
            rows == [i \in 1..Len(lines) |-> Trim(lines[i])]
            kept == SelectSeq(rows, LAMBDA row : ~SeparatorOnly(row))
            emittedRows == RowsOf(rendered.html)
        IN  \A k \in 1..Len(kept) :
               (k <= Len(emittedRows) /\ ~Includes(kept[k], "[")) =>
                   CellsWithEmpty(emittedRows[k], FALSE, <<>>) = CellsAsWritten(kept[k])

(***************************************************************************)
(* The chat formatter on lists: every text of up to MaxLines lines drawn   *)
(* from ListLines.                                                         *)
(***************************************************************************)
\* a dash item, a star item, a numbered item, a line of text and an empty line
ListLines ==
    { <<"-", SP, "a">>, <<"*", SP, "b">>, <<"1", ".", SP, "c">>, <<"x">>, <<>> }

ListInit ==
    /\ PageInit
    /\ frame = <<>>
    /\ decoded = NotDecoded
    /\ markdown \in
          { JoinLines(ls) : ls \in UNION { [1..n -> ListLines] : n \in 1..MaxLines } }
    /\ rendered = NotRendered

ListSpec == ListInit /\ [][RenderNext]_vars

(***************************************************************************)
(* C24.  List rendering: every contiguous run of bullet lines (- or * and  *)
(* a blank) is wrapped in one unordered-list container of its own that     *)
(* holds the items of that run only, text between two runs stays outside   *)
(* every container, and numbered items (1. and a blank) are rendered as    *)
(* items without an ordered-list container.                                *)
(***************************************************************************)
IsBullet(line) == Len(line) >= 3 /\ line[1] \in {"-", "*"} /\ line[2] = SP
IsNumbered(line) ==
    Len(line) >= 4 /\ line[1] \in Digits /\ line[2] = "." /\ line[3] = SP

\* the lines of a text with every run of bullet lines in a container of its own
ListsAsWritten(text) ==
    LET lines == SplitLines(text)
        bullet(i) == i \in 1..Len(lines) /\ IsBullet(lines[i])
        line(i) ==
            IF bullet(i)
            THEN (IF bullet(i - 1) THEN <<>> ELSE <<"<ul>">>)
                 \o <<"<li>">> \o SubSeq(lines[i], 3, Len(lines[i])) \o <<"</li>">>
                 \o (IF bullet(i + 1) THEN <<>> ELSE <<"</ul>">>)
            ELSE IF IsNumbered(lines[i])
                 THEN <<"<li>">> \o SubSeq(lines[i], 4, Len(lines[i])) \o <<"</li>">>
            ELSE lines[i]
    IN  LineBreaks(JoinLines([i \in 1..Len(lines) |-> line(i)]))

ListRuns ==
    rendered # NotRendered =>
        /\ rendered.formatted = ListsAsWritten(markdown)
        /\ ~Includes(rendered.formatted, "<ol>")

(***************************************************************************)
(* Two operations in a row: the second can be started within the two       *)
(* seconds that the timer of the first takes to fire.                      *)
(***************************************************************************)
MaxSends == 2

SendAgain(query) ==
    /\ opCount < MaxSends
    /\ StartResearch(query)

TimerNext ==
    \/ \E query \in Queries : SendAgain(query)
    \/ FetchResolves
    \/ \E chunk \in EndToEndChunks : ReadChunk(chunk)
    \/ ReadDone
    \/ TimerFires

TimerSpec == Init /\ [][TimerNext]_vars

(***************************************************************************)
(* C25.  The delayed reset scheduled when operation N ends never changes   *)
(* the phase or the percent of a later operation: when operation N+1 has   *)
(* been started before the timer fires, the timer leaves its phase and     *)
(* percent alone.                                                          *)
(***************************************************************************)
TimerSparesLaterOperation ==
    [][(TimerFires /\ busy) => UNCHANGED <<phase, progress>>]_vars

(***************************************************************************)
(* Sends of every kind: research and chat requests, sends while a request  *)
(* is in flight, and sends of a query that is empty after trimming.        *)
(***************************************************************************)
BlankQueries == { <<>>, <<SP>>, <<NL, SP>> }

\* if (!query.trim() || busy) return: page.tsx:42, 86
SendBlank(query) ==
    /\ Trim(query) = <<>>
    /\ UNCHANGED vars

SendNext ==
    \/ \E query \in Queries : SendAgain(query)
    \/ \E query \in Queries : SendChatMessage(query)
    \/ \E query \in Queries : SendWhileBusy(query)
    \/ \E query \in BlankQueries : SendBlank(query)
    \/ \E content \in ChatOutcomes : ChatSettles(content)
    \/ \E message \in FetchFailures : FetchFails(message)
    \/ FetchResolves
    \/ \E chunk \in EndToEndChunks : ReadChunk(chunk)
    \/ ReadDone
    \/ TimerFires

SendSpec == Init /\ [][SendNext]_vars

(***************************************************************************)
(* C26.  At most one operation, research or chat, is in flight at any      *)
(* time: a request starts only while none is in flight, and a send issued  *)
(* while busy is true, or with a query that is empty after trimming,       *)
(* starts no request and changes none of messages, phase, percent, logs.   *)
(***************************************************************************)
InFlight == pc \in {"fetch", "read", "chat"}

OneInFlight ==
    [][/\ InFlight <=> busy
       /\ opCount' # opCount =>
             (~busy /\ ~InFlight /\ busy' /\ InFlight' /\ opCount' = opCount + 1
              /\ request'.url \in {"/run", "/chat"})
       /\ \A query \in Queries \cup BlankQueries :
             ((SendWhileBusy(query) \/ SendBlank(query)) =>
                 UNCHANGED <<messages, phase, progress, logs, busy, pc, request, opCount>>)
       /\ (busy /\ busy') => UNCHANGED <<request, opCount>>]_vars

\* a send was issued while the one operation was reading its stream
OneInFlightWitness ==
    /\ superseded
    /\ busy
    /\ pc = "read"
    /\ opCount = 1
    /\ Len(messages) = 1
    /\ request = Request("/run", DefaultBudget)

(***************************************************************************)
(* Operations whose source ends: fetch resolves or rejects, and the stream *)
(* ends or fails, sooner or later.  Some streams hold an event whose       *)
(* handler throws.                                                         *)
(***************************************************************************)
TerminationChunks ==
    { StatusChunk, DoneChunk, Frame("status", <<"null">>) \o BlankLine }

TerminationNext ==
    \/ \E query \in Queries : SendAgain(query)
    \/ \E message \in FetchFailures : FetchFails(message)
    \/ FetchResolves
    \/ \E chunk \in TerminationChunks : ReadChunk(chunk)
    \/ ReadDone
    \/ \E message \in ReadFailures : ReadRejects(message)
    \/ TimerFires

\* await fetch(...) and await reader.read() settle: page.tsx:104, 124
TerminationSpec ==
    /\ Init
    /\ [][TerminationNext]_vars
    /\ WF_vars(FetchResolves \/ \E message \in FetchFailures : FetchFails(message))
    /\ WF_vars(ReadDone \/ \E message \in ReadFailures : ReadRejects(message))

(***************************************************************************)
(* C27.  Every started research operation whose source eventually signals  *)
(* completion or fails terminates with busy reset to false and with        *)
(* exactly one user message and exactly one assistant message appended to  *)
(* the history, on the success path and on every failure path alike.       *)
(***************************************************************************)
\* the history is n pairs of a user message and an assistant message
Pairs(n) ==
    /\ Len(messages) = 2 * n
    /\ \A i \in 1..Len(messages) :
          messages[i].role = (IF i % 2 = 1 THEN "user" ELSE "assistant")

OperationTerminates ==
    /\ [](busy => (Len(messages) = 2 * opCount - 1 /\ messages[Len(messages)].role = "user"))
    /\ [](~busy => Pairs(opCount))
    /\ \A n \in 1..MaxSends : (opCount = n /\ busy) ~> (opCount = n /\ ~busy /\ Pairs(n))

\* one operation has ended on the success path, the next in the catch block
OperationTerminatesWitness ==
    /\ opCount = 2
    /\ ~busy
    /\ Len(messages) = 4
    /\ messages[2].content = "Research complete!"
    /\ messages[4].content = "Error: " \o TypeErrorMessage

(***************************************************************************)
(* C28.  The splitter neither loses nor duplicates input: after every      *)
(* chunk the blocks emitted so far, each followed by the delimiter of two  *)
(* line breaks, followed by the retained buffer are the chunks received so *)
(* far, one after the other, and the retained buffer holds no two          *)
(* consecutive line breaks.                                                *)
(***************************************************************************)
NothingLostOrDuplicated ==
    /\ Terminated(emitted) \o buf = consumed
    /\ ~HasDelimiter(buf)

\* three chunks cut inside the delimiter: one block emitted, a tail retained
NothingLostOrDuplicatedWitness ==
    /\ chunkCount = 3
    /\ consumed = <<"a", NL, NL, "a">>
    /\ emitted = << <<"a">> >>
    /\ buf = <<"a">>

(***************************************************************************)
(* SSEParser (part_002:91-156), the decoder and the read loop written as   *)
(* a class, next to the ones written inline in the page.                   *)
(***************************************************************************)
\* the for loop of parseBlock: part_002:100-108
RECURSIVE ParseLines(_, _, _)
ParseLines(lines, eventName, dataLines) ==
    IF lines = <<>> THEN [eventName |-> eventName, dataLines |-> dataLines]
    ELSE LET trimmed == Trim(Head(lines))
             name == IF StartsWith(trimmed, "event:")
                     THEN Trim(SlicePrefix(trimmed)) ELSE eventName
             data == IF StartsWith(trimmed, "data:")
                     THEN Append(dataLines, Trim(SlicePrefix(trimmed))) ELSE dataLines
         IN  ParseLines(Tail(lines), name, data)

\* the null that parseBlock returns
NoEvent == [null |-> TRUE]

\* a parser that gives every event the default name
parseBlockDefaultName(block) ==
    IF Trim(block) = <<>> THEN NoEvent
    ELSE LET scan == ParseLines(SplitLines(block), <<"message">>, <<>>)
             parsed == JSONParse(JoinLines(scan.dataLines))
         IN  IF scan.dataLines = <<>> THEN NoEvent
             ELSE IF parsed.ok
                  THEN [null |-> FALSE, event |-> <<"message">>, data |-> parsed.v]
             ELSE NoEvent

\* SSEParser.parseBlock: part_002:94-118
parseBlock(block) ==
    IF Trim(block) = <<>> THEN NoEvent
    ELSE LET scan == ParseLines(SplitLines(block), <<"message">>, <<>>)
             parsed == JSONParse(JoinLines(scan.dataLines))
         IN  IF scan.dataLines = <<>> THEN NoEvent
             ELSE IF parsed.ok
                  THEN [null |-> FALSE, event |-> scan.eventName, data |-> parsed.v]
             ELSE NoEvent

\* the calls of onEvent that processStream makes for the blocks of one read:
\* part_002:141-146
RECURSIVE processStream(_)
processStream(blocks) ==
    IF blocks = <<>> THEN <<>>
    ELSE LET parsed == parseBlock(Head(blocks))
         IN  (IF parsed # NoEvent THEN << <<parsed.event, parsed.data>> >> ELSE <<>>)
             \o processStream(Tail(blocks))

\* the events that the loop of the page hands to its handlers for the same
\* blocks: page.tsx:131-147
RECURSIVE InlineEvents(_)
InlineEvents(blocks) ==
    IF blocks = <<>> THEN <<>>
    ELSE LET d == DecodeBlock(Head(blocks))
         IN  (IF d.skip THEN <<>> ELSE << <<d.eventName, d.payload>> >>)
             \o InlineEvents(Tail(blocks))

\* a text is decoded as one block by both decoders, and read as a stream, cut at
\* its delimiters, by both loops
ParseBoth ==
    /\ decoded = NotDecoded
    /\ decoded' = [inline |-> DecodeBlock(frame),
                   parser |-> parseBlock(frame),
                   inlineEvents |-> InlineEvents(SplitStep(<<>>, frame \o BlankLine).blocks),
                   parserEvents |-> processStream(SplitStep(<<>>, frame \o BlankLine).blocks)]
    /\ UNCHANGED <<messages, phase, busy, logs, progress, pc, buf, currentReport,
                   currentPlan, currentSources, timers, consumed, emitted, superseded,
                   opCount, chunkCount, budget, request, frame, markdown, rendered>>

ParserSpec == DecodeInit /\ [][ParseBoth]_vars

(***************************************************************************)
(* C29.  The frame decoder written inline in the read loop of the page and *)
(* SSEParser.parseBlock are equivalent: for every block both skip it, or   *)
(* both produce the same event name and the same payload, so the same      *)
(* stream driven through either yields the same sequence of events.        *)
(***************************************************************************)
DecodersAgree ==
    decoded # NotDecoded =>
        /\ decoded.inline.skip <=> decoded.parser = NoEvent
        /\ ~decoded.inline.skip =>
              /\ decoded.parser.event = decoded.inline.eventName
              /\ decoded.parser.data = decoded.inline.payload
        /\ decoded.parserEvents = decoded.inlineEvents

\* two event lines, the second padded with blanks, and the payload null: both
\* decoders produce the event log with the payload null, and both loops hand it on
DecodersAgreeWitness ==
    /\ frame = <<"event:", SP, "status", NL, SP, "event:", "log", SP, NL,
                 "data:", SP, "null">>
    /\ decoded # NotDecoded
    /\ decoded.parser # NoEvent
    /\ decoded.parser.event = <<"log">>
    /\ decoded.parser.data = Null
    /\ ~decoded.inline.skip
    /\ decoded.parserEvents = << << <<"log">>, Null >> >>

(***************************************************************************)
(* C30.  An operation is reported to the history as a successful           *)
(* completion (the assistant message Research complete!) only if a done    *)
(* event was applied and a report was stored: a stream that ends without   *)
(* done, after an error event, or with its last frame not terminated by a  *)
(* blank line is never reported as complete.                               *)
(***************************************************************************)
ReportedComplete ==
    /\ Len(messages') = Len(messages) + 1
    /\ messages'[Len(messages')].content = "Research complete!"

CompleteOnlyAfterDone ==
    [][ReportedComplete =>
          /\ Includes(logs, "DONE.")
          /\ ~Includes(logs, "ERROR: boom")
          /\ currentReport # Null
          /\ messages'[Len(messages')].report = currentReport]_vars

====
